---- MODULE Spec2Model ----
(***************************************************************************)
(* Model of the IOKit OS abstraction layer of IOLVMPartitionScheme         *)
(* (src/kext/lvm2_osal_iokit.cpp): the allocator adapter, the I/O buffer,  *)
(* the block device handle and the aligned-read routine.                   *)
(*                                                                         *)
(* Every handler is one action.  The collaborators (IOMalloc, IOStorage,   *)
(* IOMedia, IOBufferMemoryDescriptor) are modelled by their outcome, drawn *)
(* as an input of the action.  `last` records what the handler call that   *)
(* has just returned computed and which collaborator calls it made, in     *)
(* order, until the caller takes the result (Return).                      *)
(***************************************************************************)
EXTENDS Integers, Sequences, FiniteSets, TLC

VARIABLES storageOpen, opens, closes, dev, heap, in_buf, live, last, panicked

vars == <<storageOpen, opens, closes, dev, heap, in_buf, live, last, panicked>>

(* ---------------- integer widths (scaled down) ------------------------- *)

\* width of u32 in the model
U32Bits == 2
\* width of size_t and u64 in the model (LP64: both have the same width)
SizeBits == 4

U32_MAX == 2^U32Bits - 1
SIZE_MAX == 2^SizeBits - 1
SSIZE_MAX == 2^(SizeBits - 1) - 1

\* (u32) x
U32(x) == x % (2^U32Bits)
\* arithmetic in size_t / u64
SizeT(x) == x % (2^SizeBits)

(* ---------------- bounds of the inputs --------------------------------- *)

\* largest read position tried
MaxPos == 4
\* largest in-range read length tried, and largest caller buffer
MaxCount == 1

Positions == 0..MaxPos
Counts == (0..MaxCount) \cup {SSIZE_MAX, SSIZE_MAX + 1, SIZE_MAX}
Capacities == 0..MaxCount
\* values tried for the unassigned local `count`
UninitCounts == (0..MaxCount) \cup {SIZE_MAX}
\* preferred block sizes a medium may report (a UInt64)
MediaBlockSizes == {0, 1, 2, U32_MAX, U32_MAX + 1}
\* what memory nobody wrote holds
Junk == {0, 255}

(* ---------------- errno ------------------------------------------------ *)

EIO == 5
ENOMEM == 12
EACCES == 13
EINVAL == 22
ERANGE == 34

(* ---------------- data -------------------------------------------------- *)

NULL == [null |-> TRUE]

\* the device's byte stream: the byte at offset i
content(i) == (i + 1) % 255

\* content[pos : pos + n] as a sequence
ContentRange(pos, n) == [i \in 1..n |-> content(pos + i - 1)]

\* x % d as the machine computes it when it does not trap on d = 0
\* (quotient 0, remainder x - 0 * d)
UMod(x, d) == IF d = 0 THEN x ELSE x % d

\* the record of a handler call: its arguments, its locals, its result, and
\* the collaborator calls it made, in order
NoCall == [op |-> "none", err |-> 0, in_pos |-> 0, in_count |-> 0,
           block_size |-> 0, capacity |-> 0,
           lead_in |-> 0, lead_out |-> 0, path |-> "none",
           aligned_pos |-> 0, aligned_count |-> 0, alloc |-> "none",
           read_pos |-> 0, read_len |-> 0, read_buf |-> "none",
           res |-> 0, calls |-> <<>>]

Init ==
    /\ storageOpen = FALSE
    /\ opens = 0
    /\ closes = 0
    /\ dev = NULL
    /\ heap = 0
    /\ in_buf = NULL
    /\ live = [d \in {"in_buf", "scratch"} |-> 0]
    /\ last = NoCall
    /\ panicked = FALSE

\* the caller is between two calls: the layer is single-threaded per handle,
\* every call runs to completion (or traps) before the next one is made
Idle == ~panicked /\ last.op = "none"

\* return err: the caller takes the result of the call
Return ==
    /\ ~panicked
    /\ last.op # "none"
    /\ last' = NoCall
    /\ UNCHANGED <<storageOpen, opens, closes, dev, heap, in_buf, live,
                   panicked>>

(* ---------------- allocator adapter ------------------------------------ *)

\* lvm2_malloc: error code for the outcome of IOMalloc
lvm2_malloc(ok) == IF ok THEN 0 ELSE ENOMEM

\* lvm2_free: the heap after one record is returned
lvm2_free(h) == h - 1

(* ---------------- I/O buffer ------------------------------------------- *)

\* the memory of a new descriptor holds whatever was there: fill
lvm2_io_buffer_create(size, mallocOk, capOk, fill) ==
    /\ Idle
    /\ in_buf = NULL
    /\ LET err1 == lvm2_malloc(mallocOk)
           err == IF err1 # 0 THEN err1 ELSE IF capOk THEN 0 ELSE ENOMEM
           calls == IF err1 # 0 THEN <<"IOMalloc">>
                    ELSE IF capOk THEN <<"IOMalloc", "withCapacity">>
                    ELSE <<"IOMalloc", "withCapacity", "IOFree">>
       IN /\ heap' = IF err1 # 0 THEN heap
                     ELSE IF err # 0 THEN lvm2_free(heap + 1) ELSE heap + 1
          /\ in_buf' = IF err = 0
                       THEN [cap |-> size, bytes |-> [i \in 1..size |-> fill]]
                       ELSE in_buf
          /\ live' = IF err = 0 THEN [live EXCEPT !["in_buf"] = 1] ELSE live
          /\ last' = [NoCall EXCEPT !.op = "io_buffer_create", !.err = err,
                                    !.calls = calls]
    /\ UNCHANGED <<storageOpen, opens, closes, dev, panicked>>

lvm2_io_buffer_destroy ==
    /\ Idle
    /\ in_buf # NULL
    /\ live' = [live EXCEPT !["in_buf"] = 0]
    /\ heap' = lvm2_free(heap)
    /\ in_buf' = NULL
    /\ last' = [NoCall EXCEPT !.op = "io_buffer_destroy",
                              !.calls = <<"release", "IOFree">>]
    /\ UNCHANGED <<storageOpen, opens, closes, dev, panicked>>

(* ---------------- block device handle ---------------------------------- *)

\* a create that leaves the storage open when the handle allocation fails
CloseOnErrorNever(err) == FALSE

\* mediaBlockSize > U32_MAX
UnrealisticBlockSize(mediaBlockSize) == mediaBlockSize > U32_MAX

\* if(err) storage->close(storage);
CloseOnError(err) == err # 0

lvm2_unix_device_create(mediaBlockSize, openOk, mallocOk) ==
    /\ Idle
    /\ dev = NULL
    /\ IF UnrealisticBlockSize(mediaBlockSize)
       THEN /\ last' = [NoCall EXCEPT !.op = "create", !.err = EINVAL,
                            !.calls = <<"getPreferredBlockSize">>]
            /\ opens' = 0
            /\ closes' = 0
            /\ UNCHANGED <<storageOpen, dev, heap>>
       ELSE IF ~openOk
       THEN \* mediaIsOpen == false
            /\ last' = [NoCall EXCEPT !.op = "create", !.err = EACCES,
                            !.calls = <<"getPreferredBlockSize", "open">>]
            /\ opens' = 0
            /\ closes' = 0
            /\ UNCHANGED <<storageOpen, dev, heap>>
       ELSE LET err == lvm2_malloc(mallocOk)
                closed == CloseOnError(err)
            IN /\ dev' = IF err = 0
                         THEN [block_size |-> U32(mediaBlockSize)]
                         ELSE dev
               /\ heap' = IF err = 0 THEN heap + 1 ELSE heap
               /\ storageOpen' = ~closed
               /\ opens' = 1
               /\ closes' = IF closed THEN 1 ELSE 0
               /\ last' = [NoCall EXCEPT !.op = "create", !.err = err,
                            !.calls = <<"getPreferredBlockSize", "open",
                                        "IOMalloc">>
                                      \o (IF closed THEN <<"close">>
                                          ELSE <<>>)]
    /\ UNCHANGED <<in_buf, live, panicked>>

\* a destroy that forgets to close the storage
DestroyStepsNoClose == <<"IOFree">>

\* the collaborator calls of lvm2_unix_device_destroy, in order:
\* (*dev)->storage->close((*dev)->storage); lvm2_free(dev, ...)
DestroySteps == <<"close", "IOFree">>

lvm2_unix_device_destroy ==
    /\ Idle
    /\ dev # NULL
    /\ LET nclose == Cardinality({i \in DOMAIN DestroySteps :
                                    DestroySteps[i] = "close"})
       IN /\ storageOpen' = IF nclose > 0 THEN FALSE ELSE storageOpen
          /\ closes' = closes + nclose
    /\ heap' = lvm2_free(heap)
    /\ dev' = NULL
    /\ last' = [NoCall EXCEPT !.op = "destroy", !.calls = DestroySteps]
    /\ UNCHANGED <<opens, in_buf, live, panicked>>

(* ---------------- aligned read ----------------------------------------- *)

\* a range check that is off by one
RangeCheckOffByOne(in_count) == in_count > SSIZE_MAX + 1

\* in_count > SSIZE_MAX
RangeCheck(in_count) == in_count > SSIZE_MAX

\* lead_in = (u32) (in_pos % dev->block_size)
LeadIn(in_pos, block_size) == U32(UMod(in_pos, block_size))

\* lead_out = dev->block_size - (u32) ((lead_in + in_count) % dev->block_size)
LeadOut(lead_in, in_count, block_size) ==
    U32(block_size - U32(UMod(SizeT(lead_in + in_count), block_size)))

\* lead_in != 0 || lead_out != 0 || in_count != in_buf->buffer->getLength()
IsUnaligned(lead_in, lead_out, in_count, length) ==
    lead_in # 0 \/ lead_out # 0 \/ in_count # length

\* aligned_pos = in_pos - lead_in
AlignedPos(in_pos, lead_in) == SizeT(in_pos - lead_in)

\* aligned_count = lead_in + count + lead_out, `count` being the local that
\* has no value yet at this point
AlignedCount(lead_in, count, lead_out) == SizeT(lead_in + count + lead_out)

\* a read that does not look at the result of the allocation
ScratchAllocUnchecked(allocOk) == FALSE

\* aligned_buf == NULL
ScratchAllocFailed(allocOk) == ~allocOk

\* dev->media->read(dev->storage, pos, buf): the bytes a successful read of
\* the whole buffer (length bytes) at pos leaves in it
MediaRead(pos, length) == ContentRange(pos, length)

\* buf->getBytesNoCopy(), read for n bytes: the scratch buffer from its first
\* byte on; past its end the memory holds whatever is there
CopySource(scratch, n, junk) ==
    [i \in 1..n |-> IF i <= Len(scratch) THEN scratch[i] ELSE junk]

\* in_buf->buffer->writeBytes(0, src, n): the bytes transferred.  A request
\* longer than the descriptor is clamped or refused, by kernel version.
WriteBytesRes(n, length, clamp) ==
    IF n <= length THEN n ELSE IF clamp THEN length ELSE 0

WriteBytes(dst, src, res) ==
    [dst EXCEPT !.bytes = [i \in 1..dst.cap |->
                              IF i <= res THEN src[i] ELSE dst.bytes[i]]]

\* a read that never releases the buffer it read into
ReleaseBufNever(buf, lv) == lv

\* if(buf != in_buf->buffer) buf->release();
ReleaseBuf(buf, lv) ==
    IF buf # "in_buf" THEN [lv EXCEPT ![buf] = lv[buf] - 1] ELSE lv

lvm2_device_read(in_pos, in_count, count, allocOk, ioOk, junk, clamp, trap) ==
    /\ Idle
    /\ dev # NULL
    /\ in_buf # NULL
    /\ LET call == [NoCall EXCEPT !.op = "read", !.in_pos = in_pos,
                        !.in_count = in_count,
                        !.block_size = dev.block_size,
                        !.capacity = in_buf.cap]
       IN
       IF RangeCheck(in_count)
       THEN /\ last' = [call EXCEPT !.err = ERANGE]
            /\ UNCHANGED <<in_buf, live, panicked>>
       ELSE IF dev.block_size = 0 /\ trap
       THEN \* integer division by zero: the processor raises a divide error
            /\ panicked' = TRUE
            /\ last' = [call EXCEPT !.op = "read_trap"]
            /\ UNCHANGED <<in_buf, live>>
       ELSE
       LET lead_in == LeadIn(in_pos, dev.block_size)
           lead_out == LeadOut(lead_in, in_count, dev.block_size)
           slow == IsUnaligned(lead_in, lead_out, in_count, in_buf.cap)
       IN
       IF slow /\ ScratchAllocFailed(allocOk)
       THEN /\ last' = [call EXCEPT !.err = ENOMEM,
                            !.lead_in = lead_in, !.lead_out = lead_out,
                            !.path = "slow",
                            !.aligned_pos = AlignedPos(in_pos, lead_in),
                            !.aligned_count =
                                AlignedCount(lead_in, count, lead_out),
                            !.alloc = "failed",
                            !.calls = <<"withCapacity">>]
            /\ UNCHANGED <<in_buf, live, panicked>>
       ELSE
       LET \* pos = aligned_pos / in_pos; buf = aligned_buf / in_buf->buffer
           pos == IF slow THEN AlignedPos(in_pos, lead_in) ELSE in_pos
           buf == IF slow THEN "scratch" ELSE "in_buf"
           length == IF slow THEN AlignedCount(lead_in, count, lead_out)
                     ELSE in_buf.cap
           live1 == IF slow
                    THEN [live EXCEPT !["scratch"] = live["scratch"] + 1]
                    ELSE live
           copy == ioOk /\ buf # "in_buf"
           res == WriteBytesRes(in_count, in_buf.cap, clamp)
           live2 == ReleaseBuf(buf, live1)
       IN /\ in_buf' =
                IF ~ioOk THEN in_buf
                ELSE IF copy
                THEN WriteBytes(in_buf,
                         CopySource(MediaRead(pos, length), in_count,
                                    junk),
                         res)
                ELSE [in_buf EXCEPT !.bytes = MediaRead(pos, length)]
          /\ live' = live2
          /\ last' = [call EXCEPT
                         !.err = IF ioOk THEN 0 ELSE EIO,
                         !.lead_in = lead_in, !.lead_out = lead_out,
                         !.path = IF slow THEN "slow" ELSE "fast",
                         !.aligned_pos = IF slow THEN pos ELSE 0,
                         !.aligned_count = IF slow THEN length ELSE 0,
                         !.alloc = IF ~slow THEN "none"
                                  ELSE IF allocOk THEN "ok" ELSE "failed",
                         !.read_pos = pos, !.read_len = length,
                         !.read_buf = buf,
                         !.res = IF copy THEN res ELSE 0,
                         !.calls = (IF slow THEN <<"withCapacity">> ELSE <<>>)
                                   \o <<"read">>
                                   \o (IF copy THEN <<"writeBytes">> ELSE <<>>)
                                   \o (IF live2 # live1 THEN <<"release">>
                                       ELSE <<>>)]
          /\ UNCHANGED panicked
    /\ UNCHANGED <<storageOpen, opens, closes, dev, heap>>

(* ---------------- specification ---------------------------------------- *)

\* the inputs of a read call; an input the call cannot look at (the state of
\* the device and of the buffer decides) takes one value only
\* the copy back reads more bytes than the scratch buffer holds
ReadsPastEnd(in_pos, in_count, count) ==
    LET lead_in == LeadIn(in_pos, dev.block_size)
        lead_out == LeadOut(lead_in, in_count, dev.block_size)
    IN /\ IsUnaligned(lead_in, lead_out, in_count, in_buf.cap)
       /\ AlignedCount(lead_in, count, lead_out) < in_count

ReadCall ==
    /\ dev # NULL
    /\ in_buf # NULL
    /\ \E in_pos \in Positions, in_count \in Counts :
        IF RangeCheck(in_count)
        THEN lvm2_device_read(in_pos, in_count, 0, TRUE, TRUE, 0, FALSE, FALSE)
        ELSE \E trap \in (IF dev.block_size = 0 THEN BOOLEAN ELSE {FALSE}) :
             IF trap
             THEN lvm2_device_read(in_pos, in_count, 0, TRUE, TRUE, 0, FALSE,
                                   TRUE)
             ELSE \E allocOk \in BOOLEAN :
                  IF ~allocOk
                  THEN \E count \in UninitCounts :
                       lvm2_device_read(in_pos, in_count, count, FALSE, TRUE,
                                        0, FALSE, FALSE)
                  ELSE \E ioOk \in BOOLEAN :
                       IF ~ioOk
                       THEN \E count \in UninitCounts :
                            lvm2_device_read(in_pos, in_count, count, TRUE,
                                             FALSE, 0, FALSE, FALSE)
                       ELSE \E count \in UninitCounts,
                               clamp \in (IF in_count > in_buf.cap
                                          THEN BOOLEAN ELSE {FALSE}) :
                            \E junk \in (IF ReadsPastEnd(in_pos, in_count,
                                                         count)
                                         THEN Junk ELSE {0}) :
                            lvm2_device_read(in_pos, in_count, count, TRUE,
                                             TRUE, junk, clamp, FALSE)

Next ==
    \/ \E size \in Capacities, mallocOk \in BOOLEAN, capOk \in BOOLEAN,
          fill \in Junk :
            lvm2_io_buffer_create(size, mallocOk, capOk, fill)
    \/ lvm2_io_buffer_destroy
    \/ \E mediaBlockSize \in MediaBlockSizes, openOk \in BOOLEAN,
          mallocOk \in BOOLEAN :
            lvm2_unix_device_create(mediaBlockSize, openOk, mallocOk)
    \/ lvm2_unix_device_destroy
    \/ ReadCall
    \/ Return

Spec == Init /\ [][Next]_vars

(* ---------------- properties ------------------------------------------- *)

IsRead == last.op = "read"
\* the read got past the range check
Computed == IsRead /\ last.path # "none"
Has(calls, c) == \E i \in DOMAIN calls : calls[i] = c
\* number of handle records on the heap
DevRecords == heap - (IF in_buf # NULL THEN 1 ELSE 0)

\* C1: a successful read with block_size > 0 into a buffer of capacity count
\* leaves content[position : position + count] in the buffer.
C1_AlignmentCorrectness ==
    (IsRead /\ last.err = 0 /\ last.path # "none" /\ last.block_size > 0
        /\ last.capacity = last.in_count)
    => in_buf.bytes = ContentRange(last.in_pos, last.in_count)

\* C2: a read at a multiple of block_size, of a positive multiple of
\* block_size bytes, into a buffer of that capacity has lead_in = 0 and
\* lead_out = 0 and takes the fast path: no scratch buffer is allocated and
\* the device read goes to the caller's buffer at position.
C2_FastPathOnExactMultiple ==
    (Computed /\ last.block_size > 0
        /\ last.in_pos % last.block_size = 0
        /\ last.in_count > 0 /\ last.in_count % last.block_size = 0
        /\ last.capacity = last.in_count)
    => /\ last.lead_in = 0
       /\ last.lead_out = 0
       /\ last.path = "fast"
       /\ ~Has(last.calls, "withCapacity")
       /\ last.read_buf = "in_buf"
       /\ last.read_pos = last.in_pos

\* C3: on the slow path the capacity of the scratch buffer and the length of
\* the device read are lead_in + in_count + lead_out, and the read starts at
\* position - lead_in.
C3_SlowPathGeometry ==
    (Computed /\ last.block_size > 0 /\ last.path = "slow")
    => /\ last.aligned_count = last.lead_in + last.in_count + last.lead_out
       /\ last.aligned_pos = last.in_pos - last.lead_in
       /\ Has(last.calls, "read") =>
              /\ last.read_len = last.lead_in + last.in_count + last.lead_out
              /\ last.read_pos = last.in_pos - last.lead_in

\* C4: no scratch buffer is live after a read returns, whatever its outcome,
\* and a read never releases the caller's buffer.
C4_NoScratchLeak ==
    /\ live["scratch"] = 0
    /\ IsRead => live["in_buf"] = 1 /\ in_buf # NULL

C4_Witness ==
    /\ IsRead /\ last.path = "slow" /\ last.err = EIO
    /\ last.calls = <<"withCapacity", "read", "release">>
    /\ live["scratch"] = 0

\* C5: after a failed create the storage is not open, no handle record is
\* allocated and no handle is returned; on EINVAL the open was not attempted,
\* on ENOMEM the storage that was just opened has been closed again.
C5_FailedCreateIsClean ==
    (last.op = "create" /\ last.err # 0)
    => /\ last.err \in {EINVAL, EACCES, ENOMEM}
       /\ ~storageOpen
       /\ dev = NULL
       /\ DevRecords = 0
       /\ last.err = EINVAL => ~Has(last.calls, "open") /\ opens = 0
       /\ last.err = EACCES => opens = 0 /\ closes = 0
       /\ last.err = ENOMEM =>
              /\ opens = 1 /\ closes = 1
              /\ last.calls[Len(last.calls)] = "close"

C5_Witness ==
    /\ last.op = "create" /\ last.err = ENOMEM
    /\ Has(last.calls, "open") /\ ~storageOpen

\* C6: the handle of a successful create has block_size > 0, whatever block
\* size the media reports, and no operation changes it.
C6_BlockSizePositive ==
    dev # NULL => dev.block_size > 0

\* C7: when the allocation of the scratch buffer fails, read returns ENOMEM
\* at once: no device read is issued and the caller's buffer is unmodified.
C7_ScratchAllocFailureIsClean ==
    [][(last'.op = "read" /\ last'.alloc = "failed")
       => /\ last'.err = ENOMEM
          /\ last'.calls = <<"withCapacity">>
          /\ in_buf' = in_buf
          /\ live' = live]_vars

C7_Witness ==
    /\ IsRead /\ last.alloc = "failed" /\ last.err = ENOMEM
    /\ last.capacity > 0

\* C8: from a successful create to the destroy the storage is opened exactly
\* once and closed exactly once, by the destroy and before the handle record
\* is released; a read neither opens nor closes the storage.
C8_OpenCloseSymmetry ==
    /\ dev # NULL => storageOpen /\ opens = 1 /\ closes = 0
    /\ last.op = "destroy" =>
          /\ ~storageOpen /\ opens = 1 /\ closes = 1
          /\ last.calls = <<"close", "IOFree">>
          /\ DevRecords = 0
    /\ last.op \in {"read", "read_trap"} =>
          ~Has(last.calls, "open") /\ ~Has(last.calls, "close")

C8_Witness ==
    /\ last.op = "destroy" /\ opens = 1 /\ closes = 1 /\ ~storageOpen

\* C9: a read of more than SSIZE_MAX bytes returns ERANGE before any other
\* effect: no device read, no scratch buffer, the caller's buffer unchanged.
C9_OversizeRejected ==
    [][(last'.op \in {"read", "read_trap"} /\ last'.in_count > SSIZE_MAX)
       => /\ last'.op = "read"
          /\ last'.err = ERANGE
          /\ last'.calls = <<>>
          /\ last'.alloc = "none"
          /\ in_buf' = in_buf
          /\ live' = live]_vars

C9_Witness ==
    /\ IsRead /\ last.in_count = SIZE_MAX /\ last.err = ERANGE
    /\ last.capacity > 0

\* C10: for block_size > 0 the lead_in and the lead_out of a read are both
\* in [0, block_size).
C10_LeadRange ==
    (Computed /\ last.block_size > 0)
    => /\ last.lead_in \in 0..(last.block_size - 1)
       /\ last.lead_out \in 0..(last.block_size - 1)

====
